---- MODULE Spec2Model ----
(***************************************************************************)
(* Catchment delineation over the REC stream network (gistools/rec.py).    *)
(*                                                                         *)
(* find_upstream  traces, for every reach id of nzreach, the reaches       *)
(*                upstream of it, level by level.                          *)
(* catch_delineate matches sites to reaches, traces each distinct matched  *)
(*                reach, extracts and dissolves the sub-catchment polygons *)
(*                and joins the result back to the sites.                  *)
(*                                                                         *)
(* A DataFrame is a set of rows (records) when its index is unique, a bag  *)
(* of rows when pd.concat may repeat a row, and a sequence where row order *)
(* decides a later step (the sites, the matched sites).  A polygon is the  *)
(* set of land patches it covers, a patch being <<id, size>>; dissolve is  *)
(* set union and the area of a polygon is the sum of its patches' sizes.   *)
(***************************************************************************)
EXTENDS Integers, Sequences, FiniteSets, Bags, TLC

VARIABLES
    entry,            \* the function the caller invoked
    pc,               \* position in the running function
    err,              \* the exception that reached the caller, or "none"
    loads,            \* the load_geo_data calls made so far
    sites_shp,        \* caller's sites: sequence of [site, pos]
    rec_streams_shp,  \* caller's reach collection: set of reach rows
    rec_catch_shp,    \* caller's sub-catchment collection: set of [NZREACH, geometry]
    max_distance,     \* caller's matching distance
    rec_catch,        \* catch_delineate: loaded catchments, later extract_catch's result
    rec_streams,      \* catch_delineate: loaded reaches, [ref, data]
    pts,              \* catch_delineate: loaded sites
    pts_seg,          \* catch_delineate: matched sites, sequence of [site, pos, NZREACH]
    nzreach,          \* find_upstream's first argument, [type, items]
    reaches,          \* find_upstream's return value: bag of rows tagged with start
    rec_shed,         \* catch_delineate: agg_catch's result
    rec_shed1,        \* catch_delineate: the returned table
    rec,              \* find_upstream: loaded reaches without geometry
    idx,              \* find_upstream: position of the for loop in nzreach
    reach1,           \* find_upstream: rows collected for the current start (bag)
    up1,              \* find_upstream: the current upstream level
    levels,           \* find_upstream: iterations of the while loop for the current start
    reaches_lst       \* find_upstream: the per-start frames collected so far

vars == <<entry, pc, err, loads, sites_shp, rec_streams_shp, rec_catch_shp,
          max_distance, rec_catch, rec_streams, pts, pts_seg, nzreach, reaches,
          rec_shed, rec_shed1, rec, idx, reach1, up1, levels, reaches_lst>>

callerVars == <<entry, sites_shp, rec_streams_shp, rec_catch_shp, max_distance>>
cdVars == <<rec_catch, rec_streams, pts, pts_seg, rec_shed, rec_shed1>>
fuVars == <<rec, idx, reach1, up1, levels, reaches_lst>>

(***************************************************************************)
(* Bounds of the model.                                                    *)
(***************************************************************************)
NumReach == 2     \* ordinary reach ids 1..NumReach
NumNodes == 3     \* ordinary node ids 10, 20, ...
MaxSites == 2     \* sites per batch
MaxStarts == 2    \* reach ids per direct find_upstream call
MaxLevels == 5    \* while-loop iterations explored per start

(***************************************************************************)
(* The hard-coded topology modifications of catch_delineate.               *)
(***************************************************************************)
ModReach == 13053151
ModNode == 13055874

mods ==
    (13053151 :> [NZTNODE |-> 13055874]) @@
    (13048353 :> [NZTNODE |-> 13048851]) @@
    (13048498 :> [NZTNODE |-> 13048851])

\* max_distance=np.inf: a distance no site of the model reaches
Infinity == 1000000

(***************************************************************************)
(* Rows                                                                    *)
(***************************************************************************)
Reach(r, f, t) == [NZREACH |-> r, NZFNODE |-> f, NZTNODE |-> t]

Tag(row, i) ==
    [NZREACH |-> row.NZREACH, NZFNODE |-> row.NZFNODE, NZTNODE |-> row.NZTNODE,
     start |-> i]

Untag(x) == Reach(x.NZREACH, x.NZFNODE, x.NZTNODE)

IdsOf(net) == {r.NZREACH : r \in net}

\* reach1.loc[:, 'start'] = i
TagBag(B, i) ==
    [x \in {Tag(row, i) : row \in BagToSet(B)} |-> CopiesIn(Untag(x), B)]

RECURSIVE ConcatBags(_)
\* pd.concat(frames) of a non-empty list of frames
ConcatBags(frames) ==
    IF frames = <<>> THEN EmptyBag
    ELSE Head(frames) (+) ConcatBags(Tail(frames))

ValidTypes == {"list", "ndarray", "Series"}

\* rec[rec.NZTNODE.isin(frame.NZFNODE)]
UpstreamSingle(net, frame) ==
    LET all == {r \in net : r.NZTNODE \in {f.NZFNODE : f \in frame}}
    IN  IF all = {} THEN {}
        ELSE {CHOOSE r \in all : \A q \in all : r.NZREACH <= q.NZREACH}

UpstreamDownstream(net, frame) ==
    {r \in net : r.NZFNODE \in {f.NZTNODE : f \in frame}}

UpstreamOf(net, frame) ==
    {r \in net : r.NZTNODE \in {f.NZFNODE : f \in frame}}

(***************************************************************************)
(* find_upstream                                                           *)
(***************************************************************************)
Return ==
    IF entry = "catch_delineate" THEN "cd_extract" ELSE "done"

\* the frame passed as rec_streams_shp
StreamsArg ==
    IF entry = "catch_delineate" THEN rec_streams.data ELSE rec_streams_shp

FU_EntryLate ==
    /\ pc = "fu_entry"
    /\ rec' = StreamsArg
    /\ loads' = loads \cup {"find_upstream.rec"}
    /\ IF nzreach.type \notin ValidTypes
       THEN /\ pc' = "raised"
            /\ err' = "TypeError"
       ELSE /\ pc' = "fu_for"
            /\ err' = err
    /\ UNCHANGED <<callerVars, cdVars, nzreach, reaches, idx, reach1, up1,
                   levels, reaches_lst>>

FU_Entry ==
    /\ pc = "fu_entry"
    /\ IF nzreach.type \notin ValidTypes
       THEN /\ pc' = "raised"
            /\ err' = "TypeError"
            /\ UNCHANGED <<rec, loads>>
       ELSE /\ rec' = StreamsArg
            /\ loads' = loads \cup {"find_upstream.rec"}
            /\ pc' = "fu_for"
            /\ err' = err
    /\ UNCHANGED <<callerVars, cdVars, nzreach, reaches, idx, reach1, up1,
                   levels, reaches_lst>>

FU_For ==
    /\ pc = "fu_for"
    /\ IF idx <= Len(nzreach.items)
       THEN LET i == nzreach.items[idx]
                first == {r \in rec : r.NZREACH = i}
            IN  /\ reach1' = SetToBag(first)
                /\ up1' = UpstreamOf(rec, first)
                /\ levels' = 0
                /\ pc' = "fu_while"
       ELSE /\ pc' = "fu_concat"
            /\ UNCHANGED <<reach1, up1, levels>>
    /\ UNCHANGED <<callerVars, cdVars, err, loads, nzreach, reaches, rec, idx,
                   reaches_lst>>

FU_IfOnce ==
    /\ pc = "fu_while"
    /\ IF up1 # {}
       THEN /\ reach1' = reach1 (+) SetToBag(up1)
            /\ up1' = UpstreamOf(rec, up1)
            /\ levels' = levels + 1
       ELSE UNCHANGED <<reach1, up1, levels>>
    /\ pc' = "fu_tag"
    /\ UNCHANGED <<callerVars, cdVars, err, loads, nzreach, reaches, rec, idx,
                   reaches_lst>>

FU_While ==
    /\ pc = "fu_while"
    /\ IF up1 # {}
       THEN /\ levels < MaxLevels
            /\ reach1' = reach1 (+) SetToBag(up1)
            /\ up1' = UpstreamOf(rec, up1)
            /\ levels' = levels + 1
            /\ pc' = "fu_while"
       ELSE /\ pc' = "fu_tag"
            /\ UNCHANGED <<reach1, up1, levels>>
    /\ UNCHANGED <<callerVars, cdVars, err, loads, nzreach, reaches, rec, idx,
                   reaches_lst>>

FU_Tag ==
    /\ pc = "fu_tag"
    /\ reaches_lst' = Append(reaches_lst, TagBag(reach1, nzreach.items[idx]))
    /\ idx' = idx + 1
    /\ pc' = "fu_for"
    /\ UNCHANGED <<callerVars, cdVars, err, loads, nzreach, reaches, rec,
                   reach1, up1, levels>>

FU_Concat ==
    /\ pc = "fu_concat"
    /\ IF reaches_lst = <<>>
       THEN \* pd.concat([]): ValueError, No objects to concatenate
            /\ pc' = "raised"
            /\ err' = "ValueError"
            /\ UNCHANGED reaches
       ELSE /\ reaches' = ConcatBags(reaches_lst)
            /\ pc' = Return
            /\ err' = err
    /\ UNCHANGED <<callerVars, cdVars, loads, nzreach, fuVars>>

(***************************************************************************)
(* catch_delineate                                                         *)
(***************************************************************************)
\* load_geo_data of a loaded frame hands back a copy: a frame of its own
\* ("copy"; "caller" would be the caller's frame itself) with the same rows
LoadGeoData(obj) == [ref |-> "copy", data |-> obj]

\* rec_streams.loc[rec_streams['NZREACH'] == i, keys] = values, for i in mods
ApplyModsNone(frame) == frame

ApplyMods(frame) ==
    {IF row.NZREACH \in DOMAIN mods
     THEN [c \in DOMAIN row |->
              IF c \in DOMAIN mods[row.NZREACH] THEN mods[row.NZREACH][c]
              ELSE row[c]]
     ELSE row : row \in frame}

\* rec_streams.centroid: where the centroid of a reach's line lies
Centroid(r) == IF r = ModReach THEN 0 ELSE 2 * r

Dist(a, b) == IF a >= b THEN a - b ELSE b - a

\* the reaches whose centroid is nearest to p, none if farther than md
Nearest(p, ids, md) ==
    {r \in ids : /\ Dist(p, Centroid(r)) <= md
                 /\ \A q \in ids : Dist(p, Centroid(r)) <= Dist(p, Centroid(q))}

IsMatched(row) == row.NZREACH # 0

\* kd_nearest(pts, rec_pts1, 'NZREACH', max_distance): the points that have a
\* nearest centroid, each with its reach; choice settles equal distances
KdNearest(points, choice) ==
    SelectSeq([k \in 1..Len(points) |->
                  [site |-> points[k].site, pos |-> points[k].pos,
                   NZREACH |-> choice[k]]],
              IsMatched)

RECURSIVE Unique(_)
\* Series.unique(): first appearances, in order
Unique(s) ==
    IF s = <<>> THEN <<>>
    ELSE LET init == Unique(SubSeq(s, 1, Len(s) - 1))
             last == s[Len(s)]
         IN  IF \E k \in 1..Len(init) : init[k] = last THEN init
             ELSE Append(init, last)

RECURSIVE Area(_)
\* GeoSeries.area of a polygon
Area(g) ==
    IF g = {} THEN 0
    ELSE LET p == CHOOSE x \in g : TRUE IN p[2] + Area(g \ {p})

\* GeoDataFrame.dissolve(key)[geometry]: the union of the key's polygons; a
\* frame of no rows is taken to dissolve into a frame of no rows
Dissolve(rows, key, k) == UNION {x.geometry : x \in {y \in rows : y[key] = k}}

\* extract_catch(reaches, rec_catch_shp)
ExtractCatch(rs, catch_shp) ==
    LET sites == {x.NZREACH : x \in BagToSet(rs)}
        catch0 == LoadGeoData(catch_shp).data
        catch1 == {c \in catch0 : c.NZREACH \in sites}
        catch2 == {[NZREACH |-> k, geometry |-> Dissolve(catch1, "NZREACH", k)] :
                      k \in {c.NZREACH : c \in catch1}}
        joined == {[NZREACH |-> x.NZREACH, geometry |-> c.geometry,
                    NZFNODE |-> x.NZFNODE, NZTNODE |-> x.NZTNODE,
                    start |-> x.start] :
                      <<c, x>> \in {y \in catch2 \X BagToSet(rs) :
                                      y[1].NZREACH = y[2].NZREACH}}
    IN  [j \in joined |->
            CopiesIn(Tag(Reach(j.NZREACH, j.NZFNODE, j.NZTNODE), j.start), rs)]

\* agg_catch(rec_catch), with the columns renamed NZREACH, geometry, area
AggCatch(catch) ==
    {[NZREACH |-> s,
      geometry |-> Dissolve(BagToSet(catch), "start", s),
      area |-> Area(Dissolve(BagToSet(catch), "start", s))] :
        s \in {x.start : x \in BagToSet(catch)}}

\* rec_shed.merge(pts_seg.drop('geometry', axis=1), on='NZREACH')
MergeSites(shed, seg) ==
    {[NZREACH |-> a.NZREACH, geometry |-> a.geometry, area |-> a.area,
      site |-> seg[k].site] :
        <<a, k>> \in {y \in shed \X (1..Len(seg)) : y[1].NZREACH = seg[y[2]].NZREACH}}

CD_Load ==
    /\ pc = "cd_load"
    /\ rec_catch' = LoadGeoData(rec_catch_shp).data
    /\ rec_streams' = LoadGeoData(rec_streams_shp)
    /\ pts' = LoadGeoData(sites_shp).data
    /\ loads' = loads \cup {"rec_catch", "rec_streams", "pts"}
    /\ pc' = "cd_mods"
    /\ UNCHANGED <<callerVars, err, pts_seg, nzreach, reaches, rec_shed,
                   rec_shed1, fuVars>>

\* the modifications written to the caller's frame instead of the loaded one
CD_MakeModsOnArg ==
    /\ pc = "cd_mods"
    /\ rec_streams_shp' = ApplyMods(rec_streams_shp)
    /\ rec_streams' = [rec_streams EXCEPT !.data = ApplyMods(@)]
    /\ pc' = "cd_match"
    /\ UNCHANGED <<entry, sites_shp, rec_catch_shp, max_distance, err, loads,
                   rec_catch, pts, pts_seg, nzreach, reaches, rec_shed,
                   rec_shed1, fuVars>>

\* the .loc assignment writes into the frame rec_streams names: the caller's
\* own frame if load_geo_data handed that one back
CD_MakeMods ==
    /\ pc = "cd_mods"
    /\ rec_streams' = [rec_streams EXCEPT !.data = ApplyMods(@)]
    /\ rec_streams_shp' =
          IF rec_streams.ref = "caller" THEN ApplyMods(rec_streams.data)
          ELSE rec_streams_shp
    /\ pc' = "cd_match"
    /\ UNCHANGED <<entry, sites_shp, rec_catch_shp, max_distance, err, loads,
                   rec_catch, pts, pts_seg, nzreach, reaches, rec_shed,
                   rec_shed1, fuVars>>

RECURSIVE Choices(_, _)
\* every way to give each of the first k points one of its nearest reaches,
\* or 0 where it has none
Choices(near, k) ==
    IF k = 0 THEN {<<>>}
    ELSE {Append(c, x) : c \in Choices(near, k - 1),
                         x \in (IF near[k] = {} THEN {0} ELSE near[k])}

CD_Match ==
    /\ pc = "cd_match"
    /\ LET ids == IdsOf(rec_streams.data)
           near == [k \in 1..Len(pts) |-> Nearest(pts[k].pos, ids, max_distance)]
       IN  \E choice \in Choices(near, Len(pts)) :
              pts_seg' = KdNearest(pts, choice)
    /\ nzreach' = [type |-> "ndarray",
                   items |-> Unique([k \in 1..Len(pts_seg') |-> pts_seg'[k].NZREACH])]
    /\ pc' = "fu_entry"
    /\ UNCHANGED <<callerVars, err, loads, rec_catch, rec_streams, pts,
                   reaches, rec_shed, rec_shed1, fuVars>>

CD_Extract ==
    /\ pc = "cd_extract"
    /\ rec_catch' = ExtractCatch(reaches, rec_catch)
    /\ loads' = loads \cup {"extract_catch.catch0"}
    /\ pc' = "cd_agg"
    /\ UNCHANGED <<callerVars, err, rec_streams, pts, pts_seg, nzreach,
                   reaches, rec_shed, rec_shed1, fuVars>>

CD_Agg ==
    /\ pc = "cd_agg"
    /\ rec_shed' = AggCatch(rec_catch)
    /\ pc' = "cd_merge"
    /\ UNCHANGED <<callerVars, err, loads, rec_catch, rec_streams, pts,
                   pts_seg, nzreach, reaches, rec_shed1, fuVars>>

CD_Merge ==
    /\ pc = "cd_merge"
    /\ rec_shed1' = MergeSites(rec_shed, pts_seg)
    /\ pc' = "done"
    /\ UNCHANGED <<callerVars, err, loads, rec_catch, rec_streams, pts,
                   pts_seg, nzreach, reaches, rec_shed, fuVars>>

(***************************************************************************)
(* Inputs                                                                  *)
(***************************************************************************)
ReachIds == (1..NumReach) \cup {ModReach}
Nodes == {10 * k : k \in 1..NumNodes}

\* the node a reach of the generated networks leaves: a node of its own, as
\* in a dendritic river network.  The reach the modification names leaves
\* 10, reach 1 leaves the node the modification redirects to, reach k >= 2
\* leaves 10 * k.
FromNodeOf(r) ==
    IF r = ModReach THEN 10 ELSE IF r = 1 THEN ModNode ELSE 10 * r

\* every network over ReachIds in which a present reach ends at any node:
\* chains, confluences, self-loops and longer cycles
Networks ==
    {{Reach(r, FromNodeOf(r), g[r]) : r \in {x \in ReachIds : g[x] # 0}} :
        g \in [ReachIds -> Nodes \cup {ModNode, 0}]}

\* two reaches leave node 20: reach 1 is upstream of reach 5 along walks of
\* two and of three reaches
Braided ==
    {Reach(1, 10, 20), Reach(2, 20, 30), Reach(3, 20, 40), Reach(4, 30, 40),
     Reach(5, 40, 50)}

\* the network of the concrete scenario
Scenario6 == {Reach(1, 10, 20), Reach(2, 20, 30), Reach(3, 25, 30)}

\* the same network with the hard-coded modification in reach: the reach the
\* modification names ends at 20 as loaded, and reaches 2 and 3 end at the
\* node the modification redirects it to
Scenario7 ==
    {Reach(ModReach, 10, 20), Reach(2, 20, ModNode), Reach(3, 25, ModNode)}

\* nzreach values of length at most MaxStarts over the ids
StartLists(ids) ==
    UNION {[1..n -> ids] : n \in 0..MaxStarts}

\* lists of reach ids, and one-element arguments of the other types
TraceArgs(ids) ==
    [type : {"list"}, items : StartLists(ids)]
    \cup [type : {"ndarray", "Series", "tuple"},
          items : {l \in StartLists(ids) : Len(l) = 1}]

\* the size of the land patch draining into a reach
PatchSize(r) ==
    IF r = 1 \/ r = ModReach THEN 5 ELSE IF r = 2 THEN 3 ELSE IF r = 3 THEN 4 ELSE 1

PolygonOf(r) == [NZREACH |-> r, geometry |-> {<<r, PatchSize(r)>>}]

FullCatch(net) == {PolygonOf(r) : r \in IdsOf(net)}

\* a polygon for every reach, or for every reach but one
Catchments(net) ==
    {FullCatch(net)} \cup {FullCatch(net) \ {c} : c \in FullCatch(net)}

\* where a site lies: on the centroid of reach 2, or far from every reach
Positions == {4, 100}

BatchOf(p) == [k \in 1..Len(p) |-> [site |-> k, pos |-> p[k]]]

\* batches of at most MaxSites sites, and the scenario's batch: one site on
\* the centroid of reach 2 and one on the centroid of reach 3
SiteBatches ==
    {BatchOf(p) : p \in UNION {[1..n -> Positions] : n \in 0..MaxSites}}
    \cup {BatchOf(<<4, 6>>)}

NoFrame == [ref |-> "none", data |-> {}]

InitLocals ==
    /\ err = "none"
    /\ loads = {}
    /\ rec_catch = {}
    /\ rec_streams = NoFrame
    /\ pts = <<>>
    /\ pts_seg = <<>>
    /\ reaches = EmptyBag
    /\ rec_shed = {}
    /\ rec_shed1 = {}
    /\ rec = {}
    /\ idx = 1
    /\ reach1 = EmptyBag
    /\ up1 = {}
    /\ levels = 0
    /\ reaches_lst = <<>>

\* a direct call find_upstream(nzreach, rec_streams_shp)
InitTrace ==
    /\ entry = "find_upstream"
    /\ pc = "fu_entry"
    /\ rec_streams_shp \in Networks \cup {Braided, Scenario6}
    /\ nzreach \in TraceArgs(IdsOf(rec_streams_shp) \cup {1})
    /\ sites_shp = <<>>
    /\ rec_catch_shp = {}
    /\ max_distance = Infinity
    /\ InitLocals

NextTrace ==
    \/ FU_Entry
    \/ FU_For
    \/ FU_While
    \/ FU_Tag
    \/ FU_Concat

SpecTrace == InitTrace /\ [][NextTrace]_vars

\* a call catch_delineate(sites_shp, rec_streams_shp, rec_catch_shp, max_distance)
\* on loaded frames; a nearest-neighbour search needs at least one reach
Init ==
    /\ entry = "catch_delineate"
    /\ pc = "cd_load"
    /\ rec_streams_shp \in (Networks \ {{}}) \cup {Scenario6, Scenario7, Braided}
    /\ rec_catch_shp \in Catchments(rec_streams_shp)
    /\ sites_shp \in SiteBatches
    /\ max_distance \in {1, Infinity}
    /\ nzreach = [type |-> "list", items |-> <<>>]
    /\ InitLocals

Next ==
    \/ CD_Load
    \/ CD_MakeMods
    \/ CD_Match
    \/ FU_Entry
    \/ FU_For
    \/ FU_While
    \/ FU_Tag
    \/ FU_Concat
    \/ CD_Extract
    \/ CD_Agg
    \/ CD_Merge

Spec == Init /\ [][Next]_vars

(***************************************************************************)
(* Reference notions the properties are stated with                        *)
(***************************************************************************)
\* the reach ids find_upstream returned under start i
TracedIds(i) == {x.NZREACH : x \in {y \in BagToSet(reaches) : y.start = i}}

\* r0, ..., rk with r(j).toNode = r(j+1).fromNode
IsChain(c) == \A j \in 1..(Len(c) - 1) : c[j].NZTNODE = c[j + 1].NZFNODE

\* the reaches from which a chain leads to reach i, reach i included; a chain
\* that repeats a reach can be shortened, so chains of at most |net| reaches do
RevReach(net, i) ==
    {c[1].NZREACH :
        c \in {d \in UNION {[1..n -> net] : n \in 1..Cardinality(net)} :
                 IsChain(d) /\ d[Len(d)].NZREACH = i}}

\* the sites of the batch that kd_nearest gave no reach
Unmatched ==
    {pts[k].site : k \in 1..Len(pts)} \ {pts_seg[k].site : k \in 1..Len(pts_seg)}

Matched == pc \notin {"cd_load", "cd_mods", "cd_match"}

Tracing == pc \in {"fu_for", "fu_while", "fu_tag", "fu_concat"}

\* the rows of the returned table for a site
RowsOf(site) == {row \in rec_shed1 : row.site = site}

(***************************************************************************)
(* C1: on every finite network, cyclic ones included, the while loop of    *)
(* the trace ends.  Stated as the bound the claim's argument gives: if no  *)
(* visited reach re-entered the frontier, every iteration would add a new  *)
(* reach, so the loop would run at most as many times as the network has   *)
(* reaches.  (In the code a level is non-empty exactly when a walk of that *)
(* length ends in the start reach; a walk longer than the number of        *)
(* reaches repeats one, so exceeding the bound means every level is        *)
(* non-empty and the loop never ends.)                                     *)
(***************************************************************************)
C1_TraceTerminates == levels <= Cardinality(rec)

(***************************************************************************)
(* C2: for every start reach present in the network, the reach ids         *)
(* returned under that start are exactly the reaches from which a chain    *)
(* r0, ..., rk = start with r(j).toNode = r(j+1).fromNode exists.          *)
(***************************************************************************)
C2_TraceIsReverseReachability ==
    pc = "done" =>
        \A k \in 1..Len(nzreach.items) :
            nzreach.items[k] \in IdsOf(rec_streams_shp) =>
                TracedIds(nzreach.items[k]) = RevReach(rec_streams_shp, nzreach.items[k])

\* a returned trace through a confluence: two other reaches ending at one node
C2_Witness ==
    /\ pc = "done"
    /\ \E x, y \in BagToSet(reaches) :
          /\ x.start = y.start
          /\ x.NZREACH # y.NZREACH
          /\ x.NZTNODE = y.NZTNODE
          /\ x.start \notin {x.NZREACH, y.NZREACH}

(***************************************************************************)
(* C3: when a reach of a traced upstream set has no sub-catchment polygon, *)
(* aggregation fails instead of building catchments from the polygons that *)
(* are there: the run never gets past extraction with such a reach.        *)
(* (Stated for runs in which extraction found some polygon; what dissolve  *)
(* does with a frame of no rows is the geometry engine's business.)        *)
(***************************************************************************)
C3_MissingCatchmentRaises ==
    (pc \in {"cd_agg", "cd_merge", "done"} /\ rec_catch # EmptyBag) =>
        {x.NZREACH : x \in BagToSet(reaches)} \subseteq
            {c.NZREACH : c \in rec_catch_shp}

(***************************************************************************)
(* C4: a batch with unmatched sites does not make the run raise, and the   *)
(* unmatched sites are absent from the returned table.                     *)
(***************************************************************************)
C4_UnmatchedOmittedWithoutRaise ==
    (Matched /\ Unmatched # {}) =>
        /\ pc # "raised"
        /\ pc = "done" => \A row \in rec_shed1 : row.site \notin Unmatched

(***************************************************************************)
(* C5: the returned table is the per-site one: every matched site has      *)
(* exactly one row, with its matched reach and the catchment of that       *)
(* reach, the polygons of all reaches upstream of it and their area; no    *)
(* other site has a row.  (Stated for runs in which extraction found some  *)
(* polygon, as C3.)                                                        *)
(***************************************************************************)
C5_PerSiteOutput ==
    (pc = "done" /\ rec_catch # EmptyBag) =>
        /\ \A k \in 1..Len(pts_seg) :
              LET r == pts_seg[k].NZREACH
                  up == RevReach(rec_streams.data, r)
              IN  /\ Cardinality(RowsOf(pts_seg[k].site)) = 1
                  /\ \A row \in RowsOf(pts_seg[k].site) :
                        /\ row.NZREACH = r
                        /\ {patch[1] : patch \in row.geometry} = up
                        /\ row.geometry =
                              UNION {c.geometry : c \in {d \in rec_catch_shp :
                                                           d.NZREACH \in up}}
                        /\ row.area = Area(row.geometry)
        /\ \A row \in rec_shed1 :
              \E k \in 1..Len(pts_seg) : pts_seg[k].site = row.site

(***************************************************************************)
(* C6: on the network 1: 10->20, 2: 20->30, 3: 25->30 with sub-catchment   *)
(* areas 1:5, 2:3, 3:4, a site matched to reach 2 gets upstream set {1, 2} *)
(* and area 8, a site matched to reach 3 gets {3} and area 4.              *)
(***************************************************************************)
C6_Scenario ==
    (pc = "done" /\ rec_streams_shp = Scenario6
                 /\ rec_catch_shp = FullCatch(Scenario6)) =>
        \A k \in 1..Len(pts_seg) :
            /\ pts_seg[k].NZREACH = 2 =>
                  /\ TracedIds(2) = {1, 2}
                  /\ \E row \in RowsOf(pts_seg[k].site) :
                        row.NZREACH = 2 /\ row.area = 8
                  /\ \A row \in RowsOf(pts_seg[k].site) :
                        row.NZREACH = 2 /\ row.area = 8
            /\ pts_seg[k].NZREACH = 3 =>
                  /\ TracedIds(3) = {3}
                  /\ \E row \in RowsOf(pts_seg[k].site) :
                        row.NZREACH = 3 /\ row.area = 4
                  /\ \A row \in RowsOf(pts_seg[k].site) :
                        row.NZREACH = 3 /\ row.area = 4

\* the scenario run to its end with one site on reach 2 and one on reach 3
C6_Witness ==
    /\ pc = "done"
    /\ rec_streams_shp = Scenario6
    /\ rec_catch_shp = FullCatch(Scenario6)
    /\ \E j, k \in 1..Len(pts_seg) :
          pts_seg[j].NZREACH = 2 /\ pts_seg[k].NZREACH = 3

(***************************************************************************)
(* C7: the modifications are in the network before any traversal and       *)
(* change what is traced.  On the scenario network with the modified reach *)
(* in the place of reach 1 (10->20 as loaded, redirected to the node where *)
(* reaches 2 and 3 end), the traversal reads the redirected reach, and a   *)
(* site matched to reach 2 gets upstream set {2} and area 3.               *)
(***************************************************************************)
C7_OverrideScenario ==
    (rec_streams_shp = Scenario7 /\ rec_catch_shp = FullCatch(Scenario7)) =>
        /\ Tracing => Reach(ModReach, 10, ModNode) \in rec
        /\ Tracing => Reach(ModReach, 10, 20) \notin rec
        /\ pc = "done" =>
              \A k \in 1..Len(pts_seg) :
                  pts_seg[k].NZREACH = 2 =>
                      /\ TracedIds(2) = {2}
                      /\ \E row \in RowsOf(pts_seg[k].site) :
                            row.NZREACH = 2 /\ row.area = 3
                      /\ \A row \in RowsOf(pts_seg[k].site) :
                            row.NZREACH = 2 /\ row.area = 3

\* the override scenario run to its end with a site matched to reach 2
C7_Witness ==
    /\ pc = "done"
    /\ rec_streams_shp = Scenario7
    /\ rec_catch_shp = FullCatch(Scenario7)
    /\ \E k \in 1..Len(pts_seg) : pts_seg[k].NZREACH = 2

C9_TraceClosed ==
    pc = "done" =>
        \A j, k \in 1..Len(nzreach.items) :
            nzreach.items[k] \in TracedIds(nzreach.items[j]) =>
                TracedIds(nzreach.items[k]) \subseteq TracedIds(nzreach.items[j])

\* both traces returned, B another reach than A and with upstream reaches of
\* its own
C9_Witness ==
    /\ pc = "done"
    /\ \E j, k \in 1..Len(nzreach.items) :
          /\ nzreach.items[k] # nzreach.items[j]
          /\ nzreach.items[k] \in TracedIds(nzreach.items[j])
          /\ Cardinality(TracedIds(nzreach.items[k])) >= 2

(***************************************************************************)
(* C10: an nzreach that is no list, ndarray or Series ends in TypeError    *)
(* with nothing loaded and nothing traced.                                 *)
(***************************************************************************)
C10_EagerTypeError ==
    nzreach.type \notin ValidTypes =>
        /\ pc \in {"fu_entry", "raised"}
        /\ pc = "raised" => err = "TypeError"
        /\ loads = {}
        /\ rec = {}
        /\ reaches_lst = <<>>
        /\ reaches = EmptyBag

\* the TypeError raised on a call that had a network and a reach to trace
C10_Witness ==
    /\ pc = "raised"
    /\ err = "TypeError"
    /\ rec_streams_shp # {}
    /\ nzreach.items # <<>>
    /\ nzreach.items[1] \in IdsOf(rec_streams_shp)

====
